---- MODULE Spec2Model ----
(***************************************************************************)
(* HeadPoseEstimation (src/src/head_pose_estimation.cpp) as a state        *)
(* machine: the estimator object (focal length, optical center, current    *)
(* image, face list, landmark sets), its operations update / pose / poses, *)
(* and the pure geometry of eyesROI and pupilsRelativePose.                *)
(*                                                                         *)
(* Number representation.  Pixel coordinates are C ints.  Float values     *)
(* that are halves of ints (a midpoint, a pupil centre) are held doubled   *)
(* ("half-pixel units"); pose entries are fixed point with PoseScale per   *)
(* unit.  A float that is NaN or infinite is a record with fin = FALSE.    *)
(***************************************************************************)
EXTENDS Integers, Sequences, FiniteSets, TLC

VARIABLES
    \* ---- the HeadPoseEstimation object
    focalLength,      \* float focalLength
    opticalCenterX,   \* float opticalCenterX, -1 until the first update
    opticalCenterY,   \* float opticalCenterY
    current_image,    \* the image of the latest update
    faces,            \* std::vector<rectangle> faces
    shapes,           \* std::vector<full_object_detection> shapes
    \* ---- the process
    alive,            \* FALSE once the process has crashed
    \* ---- the external solver, a deterministic function found out lazily
    memo,
    \* ---- what the caller has observed
    firstImage,       \* the image of the first update
    lastOp,           \* "init", "update", "pose" or "poses"
    pupilPass,        \* the per-face pupil pass of the latest update
    call,             \* the latest pose(face_idx) call
    posesRet,         \* what the latest poses() of this frame returned
    \* ---- the geometry specification (eyesROI, pupilsRelativePose)
    eyeFace,          \* the landmark set handed to the function
    eyeOut            \* what the function returned

objVars == <<focalLength, opticalCenterX, opticalCenterY, current_image, faces, shapes>>
obsVars == <<firstImage, lastOp, pupilPass, call, posesRet>>
geomVars == <<eyeFace, eyeOut>>
vars == <<focalLength, opticalCenterX, opticalCenterY, current_image, faces, shapes,
          alive, memo, firstImage, lastOp, pupilPass, call, posesRet,
          eyeFace, eyeOut>>

----------------------------------------------------------------------------
(* Bounds *)

\* the most faces the detector finds in one image
MaxFaces == 2
\* the widest and the tallest base eye rectangle of the geometry specification
MaxEyeW == 5
MaxEyeH == 2

----------------------------------------------------------------------------
(* Program constants *)

\* const float EYE_ROI_ENLARGE_FACTOR = 25
EYE_ROI_ENLARGE_FACTOR == 25
\* the value the constructor gives opticalCenterX and opticalCenterY
Sentinel == -1
\* fixed point: pose entries hold PoseScale per unit
PoseScale == 10000
\* the solver works in millimetres, the pose is in metres
MmPerM == 1000

Pt(x, y) == [x |-> x, y |-> y]

\* C's conversion of a float to int, and int / int: toward zero
TruncDiv(a, b) == IF a >= 0 THEN a \div b ELSE 0 - ((0 - a) \div b)

Min(a, b) == IF a <= b THEN a ELSE b
Max(a, b) == IF a >= b THEN a ELSE b

----------------------------------------------------------------------------
(* Landmark sets.  A full_object_detection holds 68 parts; the code reads   *)
(* the eye parts 36..47 by number and nine more through FACIAL_FEATURE.     *)

EyeParts == 36..47
Features == {"SELLION", "RIGHT_EYE", "LEFT_EYE", "RIGHT_SIDE", "LEFT_SIDE",
             "MENTON", "NOSE", "MOUTH_CENTER_TOP", "MOUTH_CENTER_BOTTOM"}

\* six eye parts b .. b+5: the corners b and b+3, the upper lid b+1 and b+2,
\* the lower lid b+4 and b+5; w < 0 puts corner b+3 left of corner b
EyePart(i, x0, y0, w, h, skew) ==
    CASE i = 0 -> Pt(x0, y0 + (h \div 2))
      [] i = 1 -> Pt(x0 + 1, y0 + skew)
      [] i = 2 -> Pt(x0 + 2, y0)
      [] i = 3 -> Pt(x0 + w, y0 + (h \div 2))
      [] i = 4 -> Pt(x0 + 2, y0 + h)
      [] OTHER -> Pt(x0 + 1, y0 + h - skew)

EyesOf(lx, ly, wl, hl, rx, ry, wr, hr, skew) ==
    [i \in EyeParts |-> IF i < 42 THEN EyePart(i - 36, lx, ly, wl, hl, skew)
                                  ELSE EyePart(i - 42, rx, ry, wr, hr, skew)]

FeaturesAt(ox, oy) ==
    [f \in Features |->
        CASE f = "SELLION"             -> Pt(ox + 50, oy + 20)
          [] f = "RIGHT_EYE"           -> Pt(ox + 30, oy + 22)
          [] f = "LEFT_EYE"            -> Pt(ox + 70, oy + 22)
          [] f = "RIGHT_SIDE"          -> Pt(ox, oy + 30)
          [] f = "LEFT_SIDE"           -> Pt(ox + 100, oy + 30)
          [] f = "MENTON"              -> Pt(ox + 50, oy + 110)
          [] f = "NOSE"                -> Pt(ox + 50, oy + 55)
          [] f = "MOUTH_CENTER_TOP"    -> Pt(ox + 50, oy + 78)
          [] OTHER                     -> Pt(ox + 50, oy + 81)]

\* every part of the face at one pixel
CoincidentShape ==
    [id |-> 2, eye |-> [i \in EyeParts |-> Pt(100, 100)],
     feat |-> [f \in Features |-> Pt(100, 100)]]

\* the landmark sets the regressor can produce in the estimator
\* specification; id is the place in the catalog
ShapeCatalog ==
    <<[id |-> 1, eye |-> EyesOf(30, 20, 8, 4, 62, 20, 4, 2, 0), feat |-> FeaturesAt(10, 10)],
      CoincidentShape>>
ShapeIds == 1..Len(ShapeCatalog)

----------------------------------------------------------------------------
(* eyesROI *)

\* cv::Rect(pt1, pt2): the corner of the smaller coordinates and the spans
RectOf(p1, p2) ==
    [x |-> Min(p1.x, p2.x), y |-> Min(p1.y, p2.y),
     width |-> Max(p1.x, p2.x) - Min(p1.x, p2.x),
     height |-> Max(p1.y, p2.y) - Min(p1.y, p2.y)]

\* the rectangle of the eye whose parts are b .. b+5, before it is enlarged
BaseEyeRect(face, b) ==
    RectOf(Pt(face.eye[b].x, Min(face.eye[b + 1].y, face.eye[b + 2].y)),
           Pt(face.eye[b + 3].x, Max(face.eye[b + 4].y, face.eye[b + 5].y)))

\* a margin is the float EYE_ROI_ENLARGE_FACTOR/100 * width, held in hundredths
LMargin100(leye_roi) == EYE_ROI_ENLARGE_FACTOR * leye_roi.width

\* the variant that takes the margin of the right eye from its own rectangle
RMargin100Own(leye_roi, reye_roi) == EYE_ROI_ENLARGE_FACTOR * reye_roi.width

\* the margin of the right eye: leye_roi is the left rectangle as it is at
\* that line, enlarged already
RMargin100(leye_roi, reye_roi) == EYE_ROI_ENLARGE_FACTOR * leye_roi.width

\* roi.x -= margin; roi.y -= margin; roi.width += 2 * margin; roi.height += 2 * margin
\* on int fields with a float margin: computed in float, converted back to int
Enlarge(roi, margin100) ==
    [x |-> TruncDiv(100 * roi.x - margin100, 100),
     y |-> TruncDiv(100 * roi.y - margin100, 100),
     width |-> TruncDiv(100 * roi.width + 2 * margin100, 100),
     height |-> TruncDiv(100 * roi.height + 2 * margin100, 100)]

\* the six parts of an eye relative to the rectangle's top-left
Contour(face, b, roi) ==
    [i \in 0..5 |-> Pt(face.eye[b + i].x - roi.x, face.eye[b + i].y - roi.y)]

EyesROI(face) ==
    LET leye_roi == Enlarge(BaseEyeRect(face, 36), LMargin100(BaseEyeRect(face, 36)))
        reye_base == BaseEyeRect(face, 42)
        reye_roi == Enlarge(reye_base, RMargin100(leye_roi, reye_base))
    IN [leye |-> Contour(face, 36, leye_roi), leye_roi |-> leye_roi,
        reye |-> Contour(face, 42, reye_roi), reye_roi |-> reye_roi]

----------------------------------------------------------------------------
(* findEyeCenter and pupilsRelativePose *)

Tl(roi) == Pt(roi.x, roi.y)
Br(roi) == Pt(roi.x + roi.width, roi.y + roi.height)

\* a region with no pixel in it
DegenerateRegion(roi) == roi.width <= 0 \/ roi.height <= 0

\* the points the locator is let to answer with, relative to the region and
\* in half-pixel units: the centre, the middle of the right edge, the
\* top-left corner, the middle of the bottom edge
PupilPoints(roi) ==
    {Pt(roi.width, roi.height), Pt(2 * roi.width, roi.height), Pt(0, 0),
     Pt(roi.width, 2 * roi.height)}

\* findEyeCenter(image, roi, mask): a point of the region; on a region with
\* no pixel it fails (throws) or answers with an undefined point
FindEyeCenter(roi) ==
    IF DegenerateRegion(roi)
    THEN {[threw |-> TRUE, p |-> Pt(0, 0)], [threw |-> FALSE, p |-> Pt(0, 0)]}
    ELSE {[threw |-> FALSE, p |-> q] : q \in PupilPoints(roi)}

\* twice the divisor of one axis: roi.width/2, roi.height/2 on ints
HalfDim2(d) == 2 * TruncDiv(d, 2)

\* a float quotient num/den; dividing by 0 gives an infinity or a NaN
Quot(num, den) == [fin |-> den # 0, num |-> num, den |-> den]

\* pupil - center * 0.5, then each axis divided by half the dimension;
\* pupil2 is the pupil in half-pixel units, and so is the difference
PupilRelative(pupil2, roi) ==
    LET center == Pt(Br(roi).x - Tl(roi).x, Br(roi).y - Tl(roi).y)
        rel2 == Pt(pupil2.x - center.x, pupil2.y - center.y)
    IN [x |-> Quot(rel2.x, HalfDim2(roi.width)),
        y |-> Quot(rel2.y, HalfDim2(roi.height))]

NoQuot == Quot(0, 1)
NoRel == [x |-> NoQuot, y |-> NoQuot]
NoRoi == [x |-> 0, y |-> 0, width |-> 0, height |-> 0]
NoEyes == [leye |-> [i \in 0..5 |-> Pt(0, 0)], leye_roi |-> NoRoi,
           reye |-> [i \in 0..5 |-> Pt(0, 0)], reye_roi |-> NoRoi]
NoEyeOut == [op |-> "none", eyes |-> NoEyes, threw |-> FALSE,
             left_pupil |-> Pt(0, 0), right_pupil |-> Pt(0, 0),
             left |-> NoRel, right |-> NoRel]

\* pupilsRelativePose(image, face) with the locator answering lo and ro
PupilsRelativePose(face, lo, ro) ==
    LET eyes == EyesROI(face)
    IN IF lo.threw \/ ro.threw
       THEN [NoEyeOut EXCEPT !.op = "pupils", !.eyes = eyes, !.threw = TRUE]
       ELSE [op |-> "pupils", eyes |-> eyes, threw |-> FALSE,
             left_pupil |-> lo.p, right_pupil |-> ro.p,
             left |-> PupilRelative(lo.p, eyes.leye_roi),
             right |-> PupilRelative(ro.p, eyes.reye_roi)]

----------------------------------------------------------------------------
(* Images, the face detector and the landmark regressor *)

ImageDims == {<<640, 480>>, <<321, 241>>}
FocalLengths == {500}

\* what an image shows: the landmark set of each face in it, by catalog number
Scenes == UNION {[1..n -> ShapeIds] : n \in 0..MaxFaces}
Images == {[cols |-> d[1], rows |-> d[2], scene |-> sc] : d \in ImageDims, sc \in Scenes}
NoImage == [cols |-> 0, rows |-> 0, scene |-> <<>>]

\* detector(current_image): one face per face of the scene, in order
Detector(image) == [i \in 1..Len(image.scene) |-> [box |-> i, of |-> image.scene[i]]]

\* pose_model(current_image, face)
PoseModel(image, face) == ShapeCatalog[image.scene[face.box]]

----------------------------------------------------------------------------
(* The rigid pose solver and pose() *)

\* the 3x3 projection matrix of lines 250-256
Projection(f, cx, cy) == <<<<f, 0, cx>>, <<0, f, cy>>, <<0, 0, 1>>>>

\* coordsOf, as a float point in half-pixel units
CoordsOf2(shape, feature) == Pt(2 * shape.feat[feature].x, 2 * shape.feat[feature].y)

\* detected_points, in half-pixel units; the last is
\* (MOUTH_CENTER_TOP + MOUTH_CENTER_BOTTOM) * 0.5
DetectedPoints(shape) ==
    <<CoordsOf2(shape, "SELLION"), CoordsOf2(shape, "RIGHT_EYE"),
      CoordsOf2(shape, "LEFT_EYE"), CoordsOf2(shape, "RIGHT_SIDE"),
      CoordsOf2(shape, "LEFT_SIDE"), CoordsOf2(shape, "MENTON"),
      CoordsOf2(shape, "NOSE"),
      Pt(shape.feat["MOUTH_CENTER_TOP"].x + shape.feat["MOUTH_CENTER_BOTTOM"].x,
         shape.feat["MOUTH_CENTER_TOP"].y + shape.feat["MOUTH_CENTER_BOTTOM"].y)>>

\* Rotation vectors by name: "seed" is (1.2, 1.2, -1.2), "zero" is (0, 0, 0),
\* "quarterY" is (0, pi/2, 0), "nan" has a component that is not finite.
\* Translations are [fin, v] with v in millimetres.
Vec(a, b, c) == [fin |-> TRUE, v |-> <<a, b, c>>]
NaNVec == [fin |-> FALSE, v |-> <<0, 0, 0>>]

\* tvec = (0, 0, 1000), rvec = (1.2, 1.2, -1.2)
Seed == [rvec |-> "seed", tvec |-> Vec(0, 0, 1000)]

\* what solvePnP can leave in rvec and tvec; conv says whether the solve
\* succeeded (its bool result, which pose() does not read)
SolverFailures ==
    {[conv |-> FALSE, rvec |-> "seed", tvec |-> Vec(0, 0, 1000)],
     [conv |-> FALSE, rvec |-> "nan", tvec |-> NaNVec]}
SolverOutcomes ==
    {[conv |-> TRUE, rvec |-> "quarterY", tvec |-> Vec(0, 0, 500)],
     [conv |-> TRUE, rvec |-> "zero", tvec |-> Vec(100, 0, 800)]} \cup SolverFailures

\* all correspondences at one pixel: no pose is determined
DegeneratePoints(pts) == \A i \in 1..Len(pts) : pts[i] = pts[1]
OutcomesFor(pts) == IF DegeneratePoints(pts) THEN SolverFailures ELSE SolverOutcomes

\* the inputs of one solvePnP call
SolverKey(pts, proj, seed) == [pts |-> pts, proj |-> proj, seed |-> seed]

\* Rodrigues(rvec, rotation), in fixed point
Rodrigues(rvec) ==
    CASE rvec = "zero" ->
           [fin |-> TRUE, m |-> <<<<PoseScale, 0, 0>>, <<0, PoseScale, 0>>, <<0, 0, PoseScale>>>>]
      [] rvec = "quarterY" ->
           [fin |-> TRUE, m |-> <<<<0, 0, PoseScale>>, <<0, PoseScale, 0>>, <<0 - PoseScale, 0, 0>>>>]
      [] rvec = "seed" ->
           [fin |-> TRUE, m |-> <<<<92, 9999, 92>>, <<-92, 92, -9999>>, <<-9999, 92, 92>>>>]
      [] OTHER ->
           [fin |-> FALSE, m |-> <<<<0, 0, 0>>, <<0, 0, 0>>, <<0, 0, 0>>>>]

\* the head_pose of lines 302-307: the rotation, the translation in metres
HeadPose(rvec, tvec) ==
    LET R == Rodrigues(rvec)
        T(i) == (tvec.v[i] * PoseScale) \div MmPerM
    IN [fin |-> R.fin /\ tvec.fin,
        m |-> <<<<R.m[1][1], R.m[1][2], R.m[1][3], T(1)>>,
                <<R.m[2][1], R.m[2][2], R.m[2][3], T(2)>>,
                <<R.m[3][1], R.m[3][2], R.m[3][3], T(3)>>,
                <<0, 0, 0, PoseScale>>>>]

\* what pose() hands back: always a head_pose, whatever the solver did
PoseReturn(outcome) == [kind |-> "pose", pose |-> HeadPose(outcome.rvec, outcome.tvec)]

----------------------------------------------------------------------------
(* The gaze ray (lines 337-348).  It is compiled in with                    *)
(* HEAD_POSE_ESTIMATION_DEBUG only, and that build is the one modelled:     *)
(* without it pose() does the same less this section.                       *)

RECURSIVE SqrtBetween(_, _, _)
SqrtBetween(lo, hi, s) ==
    IF lo >= hi THEN lo
    ELSE LET mid == (lo + hi + 1) \div 2
         IN IF mid * mid <= s THEN SqrtBetween(mid, hi, s) ELSE SqrtBetween(lo, mid - 1, s)
ISqrt(s) == SqrtBetween(0, 4 * PoseScale, s)

NoGaze == [kind |-> "none", P0 |-> <<0, 0, 0>>, V |-> <<0, 0, 0>>, dotVN |-> 0,
           P |-> NaNVec]

\* P0 = translation; V = normalize(pose * (1,0,0,1) - P0); N = (0,0,1);
\* t = -(P0.N) / (V.N); P = P0 + t * V.  Nothing tests V.N before dividing.
GazeRay(pose) ==
    IF ~pose.fin THEN [NoGaze EXCEPT !.kind = "point"]
    ELSE
    LET m == pose.m
        P0 == <<m[1][4], m[2][4], m[3][4]>>
        ahead == [i \in 1..3 |-> m[i][1] + m[i][4]]
        D == [i \in 1..3 |-> ahead[i] - P0[i]]
        norm == ISqrt(D[1] * D[1] + D[2] * D[2] + D[3] * D[3])
        V == [i \in 1..3 |-> IF norm = 0 THEN 0 ELSE TruncDiv(D[i] * PoseScale, norm)]
        N == <<0, 0, 1>>
        dotPN == P0[1] * N[1] + P0[2] * N[2] + P0[3] * N[3]
        dotVN == V[1] * N[1] + V[2] * N[2] + V[3] * N[3]
        t == TruncDiv((0 - dotPN) * PoseScale, dotVN)
    IN [kind |-> "point", P0 |-> P0, V |-> <<V[1], V[2], V[3]>>, dotVN |-> dotVN,
        P |-> IF dotVN = 0 THEN NaNVec
              ELSE Vec(P0[1] + TruncDiv(t * V[1], PoseScale),
                       P0[2] + TruncDiv(t * V[2], PoseScale),
                       P0[3] + TruncDiv(t * V[3], PoseScale))]

----------------------------------------------------------------------------
(* What a caller sees of one pose(face_idx) call *)

NoRet == [kind |-> "none", pose |-> HeadPose("nan", NaNVec)]
NoOutcome == [conv |-> FALSE, rvec |-> "nan", tvec |-> NaNVec]
NoCall == [idx |-> 0, valid |-> FALSE, proj |-> Projection(0, 0, 0), seed |-> Seed,
           solved |-> FALSE, outcome |-> NoOutcome, ret |-> NoRet, gaze |-> NoGaze]

\* the variant that keeps rvec and tvec from one call to the next
PoseSeedWarm(face_idx) ==
    IF call.solved /\ call.outcome.rvec # "nan"
    THEN [rvec |-> call.outcome.rvec, tvec |-> call.outcome.tvec]
    ELSE Seed

\* the initial guess handed to solvePnP (lines 286-287)
PoseSeed(face_idx) == Seed

\* the projection matrix pose() builds from the object's fields
PoseProjection == Projection(focalLength, opticalCenterX, opticalCenterY)

\* detected_points of each landmark set of the catalog
CatalogPoints == [k \in ShapeIds |-> DetectedPoints(ShapeCatalog[k])]

\* the solvePnP call of pose(face_idx) on the landmark set shape
PoseKey(face_idx, shape) == SolverKey(CatalogPoints[shape.id], PoseProjection, PoseSeed(face_idx))

\* pose(face_idx) with the solver called on key and leaving outcome
PoseCall(face_idx, valid, key, outcome) ==
    [idx |-> face_idx, valid |-> valid, proj |-> key.proj, seed |-> key.seed,
     solved |-> TRUE, outcome |-> outcome, ret |-> PoseReturn(outcome),
     gaze |-> GazeRay(PoseReturn(outcome).pose)]

\* the solver functions that agree with m and answer the calls keys as well
Extensions(m, keys) ==
    LET new == keys \ DOMAIN m
    IN {[k \in DOMAIN m \cup keys |-> IF k \in DOMAIN m THEN m[k] ELSE g[k]] :
          g \in {f \in [new -> SolverOutcomes] : \A k \in new : f[k] \in OutcomesFor(k.pts)}}

----------------------------------------------------------------------------
(* The operations of the estimator *)

NoPupilPass == [threw |-> FALSE, done |-> 0, faces |-> 0]

\* pupilsRelativePose can throw on this landmark set, can return on it
CanThrow(shape) ==
    \E lo \in FindEyeCenter(EyesROI(shape).leye_roi), ro \in FindEyeCenter(EyesROI(shape).reye_roi) :
        PupilsRelativePose(shape, lo, ro).threw
CanReturn(shape) ==
    \E lo \in FindEyeCenter(EyesROI(shape).leye_roi), ro \in FindEyeCenter(EyesROI(shape).reye_roi) :
        ~PupilsRelativePose(shape, lo, ro).threw
CatalogCanThrow == [k \in ShapeIds |-> CanThrow(ShapeCatalog[k])]
CatalogCanReturn == [k \in ShapeIds |-> CanReturn(ShapeCatalog[k])]

\* the loop of lines 240-243: the faces at which it can end by an exception,
\* and 0 when it can run to its end
PupilPassEnds(shs) ==
    {i \in 1..Len(shs) : CatalogCanThrow[shs[i].id] /\ \A j \in 1..(i - 1) : CatalogCanReturn[shs[j].id]}
        \cup (IF \A j \in 1..Len(shs) : CatalogCanReturn[shs[j].id] THEN {0} ELSE {})

\* the variant that computes the optical center on every update
CenterUnsetAlways == TRUE

\* if (opticalCenterX == -1)
CenterUnset == opticalCenterX = Sentinel

\* the variant that appends to shapes without clearing it
ShapesAfterKeep(image) ==
    shapes \o [i \in 1..Len(Detector(image)) |-> PoseModel(image, Detector(image)[i])]

\* shapes.clear(); for (auto face : faces) shapes.push_back(pose_model(current_image, face))
ShapesAfter(image) ==
    [i \in 1..Len(Detector(image)) |-> PoseModel(image, Detector(image)[i])]

\* update(image)
Update(image) ==
    LET shs == ShapesAfter(image)
    IN
    /\ alive
    /\ IF CenterUnset
       THEN /\ opticalCenterX' = image.cols \div 2
            /\ opticalCenterY' = image.rows \div 2
       ELSE UNCHANGED <<opticalCenterX, opticalCenterY>>
    /\ current_image' = image
    /\ faces' = Detector(image)
    /\ shapes' = shs
    /\ \E end \in PupilPassEnds(shs) :
          pupilPass' = [threw |-> end # 0,
                        done |-> IF end = 0 THEN Len(shs) ELSE end - 1,
                        faces |-> Len(shs)]
    /\ firstImage' = IF firstImage.set THEN firstImage
                     ELSE [set |-> TRUE, cols |-> image.cols, rows |-> image.rows]
    /\ lastOp' = "update"
    /\ call' = NoCall
    /\ posesRet' = <<>>
    /\ UNCHANGED <<focalLength, alive, memo, geomVars>>

\* pose(face_idx), face_idx within shapes
PoseValid(face_idx) ==
    /\ alive
    /\ face_idx < Len(shapes)
    /\ LET key == PoseKey(face_idx, shapes[face_idx + 1])
       IN \E m \in Extensions(memo, {key}) :
            /\ memo' = m
            /\ call' = PoseCall(face_idx, TRUE, key, m[key])
    /\ lastOp' = "pose"
    /\ UNCHANGED <<objVars, alive, firstImage, pupilPass, posesRet, geomVars>>

\* pose(face_idx), face_idx beyond shapes: shapes[face_idx] is undefined
\* behaviour, here a crash
PoseBeyondCrash(face_idx) ==
    /\ alive
    /\ face_idx >= Len(shapes)
    /\ alive' = FALSE
    /\ call' = [NoCall EXCEPT !.idx = face_idx, !.proj = PoseProjection,
                              !.ret = [NoRet EXCEPT !.kind = "crash"]]
    /\ lastOp' = "pose"
    /\ UNCHANGED <<objVars, memo, firstImage, pupilPass, posesRet, geomVars>>

\* pose(face_idx), face_idx beyond shapes: or the read yields some bytes as a
\* landmark set, and the solver leaves whatever it leaves on them
PoseBeyondGarbage(face_idx) ==
    /\ alive
    /\ face_idx >= Len(shapes)
    /\ \E outcome \in SolverOutcomes :
          call' = PoseCall(face_idx, FALSE,
                           SolverKey(<<>>, PoseProjection, PoseSeed(face_idx)), outcome)
    /\ lastOp' = "pose"
    /\ UNCHANGED <<objVars, alive, memo, firstImage, pupilPass, posesRet, geomVars>>

\* poses(): pose(i) for every i below faces.size()
Poses ==
    /\ alive
    /\ LET n == Len(faces)
           key(i) == PoseKey(i, shapes[i + 1])
       IN \E m \in Extensions(memo, {key(i) : i \in 0..(n - 1)}) :
            /\ memo' = m
            /\ posesRet' = [i \in 1..n |-> PoseCall(i - 1, TRUE, key(i - 1), m[key(i - 1)]).ret]
            /\ call' = IF n = 0 THEN NoCall
                       ELSE PoseCall(n - 1, TRUE, key(n - 1), m[key(n - 1)])
    /\ lastOp' = "poses"
    /\ UNCHANGED <<objVars, alive, firstImage, pupilPass, geomVars>>

Init ==
    /\ focalLength \in FocalLengths
    /\ opticalCenterX = Sentinel
    /\ opticalCenterY = Sentinel
    /\ current_image = NoImage
    /\ faces = <<>>
    /\ shapes = <<>>
    /\ alive = TRUE
    /\ memo = [k \in {} |-> NoOutcome]
    /\ firstImage = [set |-> FALSE, cols |-> 0, rows |-> 0]
    /\ lastOp = "init"
    /\ pupilPass = NoPupilPass
    /\ call = NoCall
    /\ posesRet = <<>>
    /\ eyeFace = ShapeCatalog[1]
    /\ eyeOut = NoEyeOut

\* the indices pose is called with: those of the faces and the first beyond
FaceIdxs == 0..Len(shapes)

Next ==
    \/ \E image \in Images : Update(image)
    \/ \E face_idx \in FaceIdxs : PoseValid(face_idx)
    \/ \E face_idx \in FaceIdxs : PoseBeyondCrash(face_idx)
    \/ \E face_idx \in FaceIdxs : PoseBeyondGarbage(face_idx)
    \/ Poses

Spec == Init /\ [][Next]_vars

----------------------------------------------------------------------------
(* The geometry specification: eyesROI and pupilsRelativePose applied to    *)
(* one landmark set drawn from a bounded family of eye shapes.              *)

GeomFaces ==
    {[id |-> 0, eye |-> EyesOf(10, 10, wl, hl, 30, 10, wr, hr, skew), feat |-> FeaturesAt(0, 0)] :
        wl \in (0 - 1)..MaxEyeW, hl \in 0..MaxEyeH,
        wr \in (0 - 1)..MaxEyeW, hr \in 0..MaxEyeH, skew \in 0..1}

InitGeom ==
    /\ focalLength \in FocalLengths
    /\ opticalCenterX = Sentinel
    /\ opticalCenterY = Sentinel
    /\ current_image = NoImage
    /\ faces = <<>>
    /\ shapes = <<>>
    /\ alive = TRUE
    /\ memo = [k \in {} |-> NoOutcome]
    /\ firstImage = [set |-> FALSE, cols |-> 0, rows |-> 0]
    /\ lastOp = "init"
    /\ pupilPass = NoPupilPass
    /\ call = NoCall
    /\ posesRet = <<>>
    /\ eyeFace \in GeomFaces
    /\ eyeOut = NoEyeOut

\* eyesROI(face)
GeomEyesROI ==
    /\ eyeOut' = [NoEyeOut EXCEPT !.op = "eyesROI", !.eyes = EyesROI(eyeFace)]
    /\ UNCHANGED <<objVars, alive, memo, obsVars, eyeFace>>

\* pupilsRelativePose(image, face)
GeomPupils ==
    /\ \E lo \in FindEyeCenter(EyesROI(eyeFace).leye_roi),
          ro \in FindEyeCenter(EyesROI(eyeFace).reye_roi) :
          eyeOut' = PupilsRelativePose(eyeFace, lo, ro)
    /\ UNCHANGED <<objVars, alive, memo, obsVars, eyeFace>>

NextGeom == GeomEyesROI \/ GeomPupils

SpecGeom == InitGeom /\ [][NextGeom]_vars

----------------------------------------------------------------------------
(* Properties of the estimator specification, Spec *)

\* C1: the optical center is the sentinel until the first update, and from
\* then on (cols/2, rows/2) of the first image, in int arithmetic, whatever
\* the dimensions of the later images: (320, 240) for a first image 640x480
C1_OpticalCenterSetOnce ==
    /\ ~firstImage.set => opticalCenterX = Sentinel /\ opticalCenterY = Sentinel
    /\ firstImage.set => /\ opticalCenterX = firstImage.cols \div 2
                         /\ opticalCenterY = firstImage.rows \div 2
    /\ firstImage.set /\ firstImage.cols = 640 /\ firstImage.rows = 480
          => opticalCenterX = 320 /\ opticalCenterY = 240

\* a later update with an image of other dimensions has been processed
C1_Witness ==
    /\ lastOp = "update"
    /\ firstImage.set /\ firstImage.cols = 640 /\ firstImage.rows = 480
    /\ current_image.cols = 321 /\ current_image.rows = 241
    /\ opticalCenterX = 320 /\ opticalCenterY = 240

\* C2: when the solve of pose(face_idx) fails, what pose hands back is a
\* failure, not a pose
C2_SolveFailureSurfaced ==
    (lastOp = "pose" /\ call.valid /\ call.solved /\ ~call.outcome.conv)
        => call.ret.kind = "failure"

\* C3: pose called before any update ends in an 'uninitialized camera
\* model' failure, and the solver is not called
C3_UninitializedCameraSurfaced ==
    (lastOp = "pose" /\ ~firstImage.set)
        => call.ret.kind = "uninitialized camera model" /\ ~call.solved

\* C4: a failure on one face leaves no other face of the frame unprocessed:
\* the pupil pass of update covers every face but one that failed, and
\* poses() returns a result for every face
C4_PerFaceFailuresIsolated ==
    /\ lastOp = "update"
          => pupilPass.done + (IF pupilPass.threw THEN 1 ELSE 0) = pupilPass.faces
    /\ lastOp = "poses" => Len(posesRet) = Len(faces)

\* C5: the face list and the landmark sets are those of the latest image,
\* of one length, landmark set i the regressor's output for face i; poses()
\* returns one pose per face, the i-th solved from landmark set i
C5_FrameStateOfLatestImage ==
    /\ Len(faces) = Len(current_image.scene)
    /\ Len(shapes) = Len(faces)
    /\ \A i \in 1..Len(faces) :
          /\ faces[i] = [box |-> i, of |-> current_image.scene[i]]
          /\ shapes[i] = ShapeCatalog[current_image.scene[i]]
    /\ lastOp = "poses" =>
          /\ Len(posesRet) = Len(faces)
          /\ \A i \in 1..Len(faces) :
                LET key == SolverKey(DetectedPoints(ShapeCatalog[current_image.scene[i]]),
                                     PoseProjection, Seed)
                IN key \in DOMAIN memo /\ posesRet[i] = PoseReturn(memo[key])

\* poses() on the one face of a frame that is not the first
C5_Witness ==
    /\ lastOp = "poses"
    /\ firstImage.set /\ firstImage.cols # current_image.cols
    /\ Len(faces) = 1 /\ Len(posesRet) = 1

\* C8: a gaze direction parallel to the plane z = 0 is reported as a failure
C8_ParallelGazeReportsFailure ==
    (lastOp = "pose" /\ call.valid /\ call.ret.pose.fin /\ call.gaze.kind # "none"
       /\ call.gaze.dotVN = 0)
        => call.gaze.kind = "failure" /\ call.gaze.P.fin

\* C10: pose and poses leave the object as it is, every solve starts from
\* the fixed seed, and a call repeated within a frame returns what the
\* earlier call returned
C10_PoseOnDemandIdempotent ==
    [][lastOp' \in {"pose", "poses"} =>
         /\ UNCHANGED objVars
         /\ call'.solved => call'.seed = [rvec |-> "seed", tvec |-> Vec(0, 0, 1000)]
         /\ (lastOp' = "pose" /\ call'.valid /\ lastOp = "pose" /\ call.valid
                /\ call.idx = call'.idx) => call'.ret = call.ret
         /\ (lastOp' = "pose" /\ call'.valid /\ posesRet # <<>>)
                => call'.ret = posesRet[call'.idx + 1]
         /\ (lastOp' = "poses" /\ lastOp = "pose" /\ call.valid)
                => posesRet'[call.idx + 1] = call.ret
         /\ (lastOp' = "poses" /\ lastOp = "poses") => posesRet' = posesRet]_vars

\* pose(1) called after poses() in a frame of two faces
C10_Witness ==
    /\ lastOp = "pose" /\ call.valid /\ call.idx = 1
    /\ Len(posesRet) = 2 /\ call.ret = posesRet[2]
    /\ call.outcome.conv

----------------------------------------------------------------------------
(* Properties of the geometry specification, SpecGeom *)

\* a float quotient equal to a / b
QuotIs(q, a, b) == q.fin /\ q.num * b = a * q.den

\* C6: each eye's enlarged rectangle is its base rectangle moved up and left
\* by a quarter of its own width W and widened to W + 2*(0.25*W) = 1.5*W,
\* its height H + 2*(0.25*W)
C6_EnlargedByOwnWidth ==
    eyeOut.op = "eyesROI" =>
        \A b \in {36, 42} :
            LET base == BaseEyeRect(eyeFace, b)
                roi == IF b = 36 THEN eyeOut.eyes.leye_roi ELSE eyeOut.eyes.reye_roi
            IN /\ 2 * roi.width = 3 * base.width
               /\ 4 * roi.height = 4 * base.height + 2 * base.width
               /\ 4 * roi.x = 4 * base.x - base.width
               /\ 4 * roi.y = 4 * base.y - base.width

\* C7: on an eye rectangle with pixels in it the normalized pupil is
\* (pupil - center) over half the width and half the height: (0,0) at the
\* center, (1,0) at the middle of the right edge
C7_PupilNormalizedByHalfDimension ==
    (eyeOut.op = "pupils" /\ ~eyeOut.threw) =>
        /\ ~DegenerateRegion(eyeOut.eyes.leye_roi) =>
              LET w == eyeOut.eyes.leye_roi.width
                  h == eyeOut.eyes.leye_roi.height
                  p == eyeOut.left_pupil
              IN /\ QuotIs(eyeOut.left.x, p.x - w, w)
                 /\ QuotIs(eyeOut.left.y, p.y - h, h)
                 /\ (p = Pt(w, h) => QuotIs(eyeOut.left.x, 0, 1) /\ QuotIs(eyeOut.left.y, 0, 1))
                 /\ (p = Pt(2 * w, h) => QuotIs(eyeOut.left.x, 1, 1) /\ QuotIs(eyeOut.left.y, 0, 1))
        /\ ~DegenerateRegion(eyeOut.eyes.reye_roi) =>
              LET w == eyeOut.eyes.reye_roi.width
                  h == eyeOut.eyes.reye_roi.height
                  p == eyeOut.right_pupil
              IN /\ QuotIs(eyeOut.right.x, p.x - w, w)
                 /\ QuotIs(eyeOut.right.y, p.y - h, h)
                 /\ (p = Pt(w, h) => QuotIs(eyeOut.right.x, 0, 1) /\ QuotIs(eyeOut.right.y, 0, 1))
                 /\ (p = Pt(2 * w, h) => QuotIs(eyeOut.right.x, 1, 1) /\ QuotIs(eyeOut.right.y, 0, 1))

\* the spans of the two base rectangles, read off the landmarks
LeftBaseWidth == Max(eyeFace.eye[36].x, eyeFace.eye[39].x) - Min(eyeFace.eye[36].x, eyeFace.eye[39].x)
RightBaseWidth == Max(eyeFace.eye[42].x, eyeFace.eye[45].x) - Min(eyeFace.eye[42].x, eyeFace.eye[45].x)
RightBaseHeight ==
    Max(eyeFace.eye[46].y, eyeFace.eye[47].y) - Min(eyeFace.eye[43].y, eyeFace.eye[44].y)

====
